---- MODULE Spec2Model ----
(***************************************************************************)
(* LegalEagle: the retrieval-augmented question-answering backend.         *)
(* State machine of src/backend/server.py (upload, delete, chat and the    *)
(* legacy endpoints) over src/rag (loader, retriever, chat model, chain).  *)
(*                                                                         *)
(* Strings the code converts (lower(), strip()) are sequences of           *)
(* characters (a run of characters no conversion looks into may be one     *)
(* element), so that the conversions are computed.  A file name            *)
(* is the record [base, ctr, ext]: "a.pdf" is [a, 0, pdf] and "a_1.pdf",   *)
(* the name the upload loop generates, is [a, 1, pdf].                     *)
(***************************************************************************)
EXTENDS Integers, Sequences, FiniteSets, TLC

\* ------------------------------------------------------------------ bounds
MaxDocs == 2
MaxCtr == 1
MaxChats == 1
MaxEntries == 3
MaxColl == 21

\* --------------------------------------------------------------- constants
\* Python's None, for values that are strings when present.
None == <<"None">>
NoFile == "NoFile"

OPENAI == <<"o", "p", "e", "n", "a", "i">>
GEMINI == <<"g", "e", "m", "i", "n", "i">>
CLAUDE == <<"c", "l", "a", "u", "d", "e">>
GROQ == <<"g", "r", "o", "q">>
Providers == {OPENAI, GEMINI, CLAUDE, GROQ}

GPT4oMini == <<"gpt-4o-mini">>

\* The embedding providers; HUGGINGFACE is the local sentence-transformer.
HUGGINGFACE == <<"h", "u", "g", "g", "i", "n", "g", "f", "a", "c", "e">>

Users == {1, 2}
\* File extensions, without the dot.
PDF == <<"p", "d", "f">>
TXT == <<"t", "x", "t">>
DOC == <<"d", "o", "c">>
DOCX == <<"d", "o", "c", "x">>
EXE == <<"e", "x", "e">>
Exts == {PDF, TXT, <<"P", "D", "F">>, EXE}
ALLOWED_EXTENSIONS == {TXT, PDF, DOCX, DOC}
Bases == {"a"}

FileNames == [base : Bases, ctr : 0..MaxCtr, ext : Exts]
OriginalNames == {f \in FileNames : f.ctr = 0}
Stems == [base : Bases, ctr : 0..MaxCtr]

\* File contents: X and Y are readable texts, BAD is a file no loader parses.
\* "HARD" is a PDF that PyPDFLoader cannot read and PyMuPDFLoader can; "BAD"
\* is a file no loader can read.
Contents == {"X", "Y", "HARD", "BAD"}
NumChunks(c) == IF c = "X" THEN 2 ELSE IF c \in {"Y", "HARD"} THEN 1 ELSE 0

\* ------------------------------------------------------- string conversions
UpperCase == <<"A", "B", "C", "D", "E", "F", "G", "H", "I", "J", "K", "L", "M",
               "N", "O", "P", "Q", "R", "S", "T", "U", "V", "W", "X", "Y", "Z">>
LowerCase == <<"a", "b", "c", "d", "e", "f", "g", "h", "i", "j", "k", "l", "m",
               "n", "o", "p", "q", "r", "s", "t", "u", "v", "w", "x", "y", "z">>
Only(S) == CHOOSE x \in S : TRUE
LowerTable == [c \in {UpperCase[i] : i \in 1..26} |->
                  LowerCase[CHOOSE i \in 1..26 : UpperCase[i] = c]]
LowerChar(c) == IF c \in DOMAIN LowerTable THEN LowerTable[c] ELSE c

\* str.lower()
Lower(s) == [i \in 1..Len(s) |-> LowerChar(s[i])]

IsSpace(c) == c \in {" ", "\t", "\n"}

RECURSIVE LStrip(_)
LStrip(s) == IF s # <<>> /\ IsSpace(Head(s)) THEN LStrip(Tail(s)) ELSE s

RECURSIVE RStrip(_)
RStrip(s) == IF s # <<>> /\ IsSpace(s[Len(s)])
             THEN RStrip(SubSeq(s, 1, Len(s) - 1)) ELSE s

\* The question taken as it comes, not stripped.
Strip_Nothing(s) == s

\* str.strip()
Strip(s) == RStrip(LStrip(s))

\* Python's `x or y`: None and the empty string are falsy.
Falsy(x) == x = None \/ x = <<>>
Or(x, y) == IF Falsy(x) THEN y ELSE x

\* ---------------------------------------------------------------- requests
\* Failure switches of the external calls one request makes: what the
\* embedding service, the vector store and the chat backend do is not
\* decided by the program.
Flags == [emb : BOOLEAN, open : BOOLEAN, build : BOOLEAN, ctor : BOOLEAN,
          retr : BOOLEAN, invoke : BOOLEAN]
NoFail == [emb |-> FALSE, open |-> FALSE, build |-> FALSE, ctor |-> FALSE,
           retr |-> FALSE, invoke |-> FALSE]

UserKey == <<"u", "k">>
EnvKey == <<"e", "k">>
KeyOrNone == {None, UserKey}
EnvKeys == [Providers -> {None, EnvKey}]

Questions == {None, <<>>, <<" ">>, <<"q">>, <<" ", "q">>, <<"\t", "\n">>}

\* ------------------------------------------------------------------- state
VARIABLES
    fs,          \* uploads/: file name -> content, or NoFile
    chroma,      \* vector store: collection name -> [exists, entries]
    documents,   \* rows of table documents
    nextDocId,   \* AUTOINCREMENT of documents.id
    chats,       \* rows of table chat_history
    nextChatId,  \* AUTOINCREMENT of chat_history.id
    settings,    \* rows of table llm_settings, by user
    env,         \* API keys read from the environment at start-up
    qa_chain,    \* the process-global chain of the legacy endpoints
    users,       \* rows of table users (their ids)
    inflight,    \* per worker: the get_retriever call it is in, or was in
    last         \* what the latest request did and answered

vars == <<fs, chroma, documents, nextDocId, chats, nextChatId, settings, env,
          qa_chain, users, inflight, last>>

Chunk(c, i) == [content |-> c, idx |-> i]

\* The workers that serve requests at the same time, and a worker that is
\* not inside a get_retriever call.
Workers == {1, 2}
NoCall == [pc |-> "idle", coll |-> [base |-> "a", ctr |-> 0],
           content |-> NoFile, empty |-> FALSE]
NoCollection == [exists |-> FALSE, entries |-> <<>>, embedder |-> None]
NoRetriever == [ok |-> FALSE, coll |-> [base |-> "a", ctr |-> 0],
                stale |-> FALSE, embedder |-> None]
NoModel == [ok |-> FALSE, err |-> "", provider |-> None, model_name |-> None,
            api_key |-> None]
NoChain == [set |-> FALSE, model |-> NoModel, retriever |-> NoRetriever]
NoSettings == [exists |-> FALSE, preferred_provider |-> None,
               model_name |-> None, keys |-> [p \in Providers |-> None]]

\* ------------------------------------------------------ rag/data_loader.py
\* The loaders of langchain_community, by the contents they can read.
PyPDFLoader == "PyPDFLoader"
PyMuPDFLoader == "PyMuPDFLoader"
UnstructuredWordDocumentLoader == "UnstructuredWordDocumentLoader"
TextLoader == "TextLoader"
Loads(loader, content) ==
    IF loader = PyPDFLoader THEN content \notin {"HARD", "BAD"}
    ELSE content # "BAD"

\* A PDF branch that runs both loaders whatever the first one did.
load_pdf_BothAlways(content) ==
    IF Loads(PyPDFLoader, content) \/ Loads(PyMuPDFLoader, content)
    THEN [ok |-> TRUE, err |-> "", content |-> content,
          tried |-> <<PyPDFLoader, PyMuPDFLoader>>]
    ELSE [ok |-> FALSE, err |-> "ParseError", content |-> NoFile,
          tried |-> <<PyPDFLoader, PyMuPDFLoader>>]

\* The PDF branch: PyPDFLoader(file_path).load(), and on any exception
\* PyMuPDFLoader(file_path).load(), whose exception is not caught.
load_pdf(content) ==
    IF Loads(PyPDFLoader, content)
    THEN [ok |-> TRUE, err |-> "", content |-> content,
          tried |-> <<PyPDFLoader>>]
    ELSE IF Loads(PyMuPDFLoader, content)
    THEN [ok |-> TRUE, err |-> "", content |-> content,
          tried |-> <<PyPDFLoader, PyMuPDFLoader>>]
    ELSE [ok |-> FALSE, err |-> "ParseError", content |-> NoFile,
          tried |-> <<PyPDFLoader, PyMuPDFLoader>>]

\* The branch of one loader.
load_with(loader, content) ==
    IF Loads(loader, content)
    THEN [ok |-> TRUE, err |-> "", content |-> content, tried |-> <<loader>>]
    ELSE [ok |-> FALSE, err |-> "ParseError", content |-> NoFile,
          tried |-> <<loader>>]

\* A loader that looks at the extension before it looks for the file.
load_document_ExtensionFirst(files, name) ==
    IF Lower(name.ext) \notin {PDF, DOC, DOCX, TXT}
    THEN [ok |-> FALSE, err |-> "ValueError", content |-> NoFile,
          tried |-> <<>>]
    ELSE IF files[name] = NoFile
    THEN [ok |-> FALSE, err |-> "FileNotFoundError", content |-> NoFile,
          tried |-> <<>>]
    ELSE IF Lower(name.ext) = PDF THEN load_pdf(files[name])
    ELSE IF Lower(name.ext) = TXT THEN load_with(TextLoader, files[name])
    ELSE load_with(UnstructuredWordDocumentLoader, files[name])

\* LoadDocuments.load_document: the segments of a file are named by its
\* content; a PDF is tried with PyPDFLoader, then with PyMuPDFLoader.
load_document(files, name) ==
    IF files[name] = NoFile
    THEN [ok |-> FALSE, err |-> "FileNotFoundError", content |-> NoFile,
          tried |-> <<>>]
    ELSE IF Lower(name.ext) = PDF THEN load_pdf(files[name])
    ELSE IF Lower(name.ext) \in {DOC, DOCX}
    THEN load_with(UnstructuredWordDocumentLoader, files[name])
    ELSE IF Lower(name.ext) = TXT THEN load_with(TextLoader, files[name])
    ELSE [ok |-> FALSE, err |-> "ValueError", content |-> NoFile,
          tried |-> <<>>]

\* -------------------------------------------------------- rag/retriever.py
K == 6
FETCH_K == 20

Min(a, b) == IF a < b THEN a ELSE b

\* RecursiveCharacterTextSplitter(1200, 150).split_documents
split_documents(content) == [i \in 1..NumChunks(content) |-> Chunk(content, i)]

\* path.splitext(path.basename(uploaded_file))[0]
splitext_stem(name) == [base |-> name.base, ctr |-> name.ctr]

\* get_retriever reusing whatever it opens, without the count() == 0 check.
get_retriever_NoCountCheck(colls, cname, content, embedding, fl) ==
    LET splits == split_documents(content)
        cur == colls[cname]
        opened == [cur EXCEPT !.exists = TRUE]
        built == [exists |-> TRUE, entries |-> cur.entries \o splits,
                  embedder |-> embedding]
        handle == [ok |-> TRUE, coll |-> cname, stale |-> FALSE,
                   embedder |-> embedding]
        mixed == cur.entries # <<>> /\ cur.embedder # embedding
    IN  IF ~fl.open
        THEN [retriever |-> handle, chunked |-> TRUE,
              ready |-> Len(cur.entries) # 0, embedded |-> FALSE,
              colls |-> [colls EXCEPT ![cname] = opened]]
        ELSE IF fl.build \/ mixed
        THEN [retriever |-> NoRetriever, chunked |-> TRUE, ready |-> FALSE,
              embedded |-> TRUE, colls |-> colls]
        ELSE [retriever |-> handle, chunked |-> TRUE, ready |-> FALSE,
              embedded |-> TRUE,
              colls |-> [colls EXCEPT ![cname] = built]]

\* get_retriever calling Chroma.from_documents on a Ready collection too.
get_retriever_AlwaysBuild(colls, cname, content, embedding, fl) ==
    LET splits == split_documents(content)
        cur == colls[cname]
        opened == IF fl.open THEN cur ELSE [cur EXCEPT !.exists = TRUE]
        ready == ~fl.open /\ Len(opened.entries) # 0
        built == [exists |-> TRUE, entries |-> opened.entries \o splits,
                  embedder |-> embedding]
        handle == [ok |-> TRUE, coll |-> cname, stale |-> FALSE,
                   embedder |-> embedding]
        mixed == cur.entries # <<>> /\ cur.embedder # embedding
    IN  IF fl.build \/ mixed
        THEN [retriever |-> NoRetriever, chunked |-> TRUE, ready |-> ready,
              embedded |-> TRUE,
              colls |-> [colls EXCEPT ![cname] = opened]]
        ELSE [retriever |-> handle, chunked |-> TRUE, ready |-> ready,
              embedded |-> TRUE,
              colls |-> [colls EXCEPT ![cname] = built]]

\* Retriever.get_retriever: chunk, open the collection (Chroma(...) creates
\* it when it is missing), rebuild it with Chroma.from_documents when the
\* open raised or the count is 0; any exception gives None.  from_documents
\* adds to the collection of that name, and the store refuses vectors of
\* another embedding than the one the collection holds (mixed).
get_retriever(colls, cname, content, embedding, fl) ==
    LET splits == split_documents(content)
        cur == colls[cname]
        opened == IF fl.open THEN cur ELSE [cur EXCEPT !.exists = TRUE]
        ready == ~fl.open /\ Len(opened.entries) # 0
        built == [exists |-> TRUE, entries |-> opened.entries \o splits,
                  embedder |-> embedding]
        handle == [ok |-> TRUE, coll |-> cname, stale |-> FALSE,
                   embedder |-> embedding]
        mixed == cur.entries # <<>> /\ cur.embedder # embedding
    IN  IF ready
        THEN [retriever |-> handle, chunked |-> TRUE, ready |-> TRUE,
              embedded |-> FALSE,
              colls |-> [colls EXCEPT ![cname] = opened]]
        ELSE IF fl.build \/ mixed
        THEN [retriever |-> NoRetriever, chunked |-> TRUE, ready |-> FALSE,
              embedded |-> TRUE,
              colls |-> [colls EXCEPT ![cname] = opened]]
        ELSE [retriever |-> handle, chunked |-> TRUE, ready |-> FALSE,
              embedded |-> TRUE,
              colls |-> [colls EXCEPT ![cname] = built]]

\* The increasing sequences of r numbers of lo..hi.
RECURSIVE Combos(_, _, _)
Combos(lo, hi, r) ==
    IF r = 0 THEN {<<>>}
    ELSE UNION {{<<i>> \o c : c \in Combos(i + 1, hi, r - 1)} :
                   i \in lo..(hi - r + 1)}

\* A search that returns every candidate it fetched.
MMRResults_EveryCandidate(entries) ==
    LET n == Min(FETCH_K, Len(entries))
    IN  {[i \in 1..n |-> entries[i]]}

\* get_retriever as a worker runs it beside other workers, first part:
\* the collection is opened for the chunks of the document and its count
\* is read.
get_retriever_open(colls, cname, content) ==
    [call |-> [pc |-> "opened", coll |-> cname, content |-> content,
               empty |-> Len(colls[cname].entries) = 0],
     colls |-> [colls EXCEPT ![cname].exists = TRUE]]

\* A second part that reads the count again before it writes.
get_retriever_build_Recheck(call, colls, embedding) ==
    IF call.empty /\ Len(colls[call.coll].entries) = 0
    THEN [colls EXCEPT ![call.coll] =
            [exists |-> TRUE,
             entries |-> @.entries \o split_documents(call.content),
             embedder |-> embedding]]
    ELSE colls

\* Second part: Chroma.from_documents when the count read was 0; it adds
\* the chunks to whatever the collection holds by then.
get_retriever_build(call, colls, embedding) ==
    IF call.empty
    THEN [colls EXCEPT ![call.coll] =
            [exists |-> TRUE,
             entries |-> @.entries \o split_documents(call.content),
             embedder |-> embedding]]
    ELSE colls

\* The results the MMR search (k = 6 of the fetch_k = 20 nearest) can give
\* on the entries listed nearest to the query first: which of the
\* candidates it selects is decided by the embedding.
MMRResults(entries) ==
    LET n == Min(FETCH_K, Len(entries))
        m == Min(K, n)
    IN  {[i \in 1..m |-> entries[f[i]]] : f \in Combos(1, n, m)}

\* -------------------------------------------------------- rag/embedding.py
\* EmbeddingsCreator: the provider is LEGAL_EAGLE_EMBEDDINGS_PROVIDER when
\* it names one, else OpenAI when OPENAI_API_KEY is set, else HuggingFace;
\* OpenAIEmbeddings() cannot be constructed without the key.
create_embeddings(e) ==
    LET override == Or(Lower(Strip(Or(e.embeddings_provider, <<>>))), None)
        provider == IF override \in {OPENAI, HUGGINGFACE} THEN override
                    ELSE IF ~Falsy(e.keys[OPENAI]) THEN OPENAI
                    ELSE HUGGINGFACE
    IN  [ok |-> ~(provider = OPENAI /\ Falsy(e.keys[OPENAI])),
         provider |-> provider]

\* ----------------------------------------------------- rag/rag_pipeline.py
\* RAGPipeline.pipeline.  (A value the code computes once is bound once,
\* as the only element of a singleton.)
RAGPipeline_pipeline(files, colls, name, e, fl) ==
    Only({
        IF ~ld.ok
        THEN [raised |-> TRUE, err |-> ld.err, retriever |-> NoRetriever,
              colls |-> colls, loaded |-> FALSE, chunked |-> FALSE,
              ready |-> FALSE, embedded |-> FALSE, opened |-> FALSE]
        ELSE IF fl.emb \/ ~create_embeddings(e).ok
        THEN [raised |-> TRUE, err |-> "EmbeddingsError",
              retriever |-> NoRetriever, colls |-> colls, loaded |-> TRUE,
              chunked |-> FALSE, ready |-> FALSE, embedded |-> FALSE,
              opened |-> FALSE]
        ELSE Only({[raised |-> FALSE, err |-> "", retriever |-> r.retriever,
                    colls |-> r.colls, loaded |-> TRUE, chunked |-> r.chunked,
                    ready |-> r.ready, embedded |-> r.embedded,
                    opened |-> TRUE] :
                   r \in {get_retriever(colls, splitext_stem(name),
                                        ld.content,
                                        create_embeddings(e).provider, fl)}})
        : ld \in {load_document(files, name)}})

\* ------------------------------------------------------- rag/chat_model.py
\* The optional client libraries (langchain-google-genai, -anthropic, -groq).
OptionalLibs == {GEMINI, CLAUDE, GROQ}

\* ChatOpenAI(...), ChatGoogleGenerativeAI(...), ...: the client constructor
\* gets the key as it is; whether it raises is the library's decision.
client(provider, model_name, api_key, ctorFails) ==
    IF ctorFails
    THEN [ok |-> FALSE, err |-> "ClientError", provider |-> provider,
          model_name |-> model_name, api_key |-> api_key]
    ELSE [ok |-> TRUE, err |-> "", provider |-> provider,
          model_name |-> model_name, api_key |-> api_key]

\* A factory whose last branch falls back to the OpenAI client.
initialize_chat_model_Fallback(provider_arg, model_name, api_key, libs, ctorFails) ==
    LET provider == Lower(Or(provider_arg, OPENAI))
        failed(e) == [ok |-> FALSE, err |-> e, provider |-> provider,
                      model_name |-> model_name, api_key |-> api_key]
    IN  IF provider \in OptionalLibs \ libs THEN failed("RuntimeError")
        ELSE client(provider, model_name, api_key, ctorFails)

\* ChatModel.__init__ and ChatModel.initialize_chat_model
initialize_chat_model(provider_arg, model_name, api_key, libs, ctorFails) ==
    LET provider == Lower(Or(provider_arg, OPENAI))
        failed(e) == [ok |-> FALSE, err |-> e, provider |-> provider,
                      model_name |-> model_name, api_key |-> api_key]
    IN  IF provider = OPENAI
        THEN client(provider, model_name, api_key, ctorFails)
        ELSE IF provider = GEMINI
        THEN IF GEMINI \notin libs THEN failed("RuntimeError")
             ELSE client(provider, model_name, api_key, ctorFails)
        ELSE IF provider = CLAUDE
        THEN IF CLAUDE \notin libs THEN failed("RuntimeError")
             ELSE client(provider, model_name, api_key, ctorFails)
        ELSE IF provider = GROQ
        THEN IF GROQ \notin libs THEN failed("RuntimeError")
             ELSE client(provider, model_name, api_key, ctorFails)
        ELSE failed("ValueError")

\* RAGPipeline.qa_chain: the chat model first, then the retriever.
RAGPipeline_qa_chain(files, colls, name, provider, model_name, api_key, e, fl) ==
    Only({
        IF ~chat_model.ok
        THEN [raised |-> TRUE, err |-> chat_model.err, chain |-> NoChain,
              colls |-> colls, modelBuilt |-> FALSE, loaded |-> FALSE,
              chunked |-> FALSE, ready |-> FALSE, embedded |-> FALSE,
              opened |-> FALSE]
        ELSE Only({
            [raised |-> p.raised, err |-> p.err,
             chain |-> IF p.raised THEN NoChain
                       ELSE [set |-> TRUE, model |-> chat_model,
                             retriever |-> p.retriever],
             colls |-> p.colls, modelBuilt |-> TRUE, loaded |-> p.loaded,
             chunked |-> p.chunked, ready |-> p.ready,
             embedded |-> p.embedded, opened |-> p.opened]
            : p \in {RAGPipeline_pipeline(files, colls, name, e, fl)}})
        : chat_model \in {initialize_chat_model(provider, model_name, api_key,
                                                e.libs, fl.ctor)}})

\* ------------------------------------------------- rag/conversation_chain.py
Answer == <<"answer">>

\* What retriever.get_relevant_documents can raise on: the query embedding
\* failing, a collection that was deleted under the retriever, or a query
\* vector of another embedding than the collection's.
retrieval_raises(chain, colls, fl) ==
    /\ chain.retriever.ok
    /\ \/ fl.retr \/ chain.retriever.stale
       \/ ~colls[chain.retriever.coll].exists
       \/ /\ colls[chain.retriever.coll].entries # <<>>
          /\ colls[chain.retriever.coll].embedder # chain.retriever.embedder

\* The entries the retriever of the chain searches.
searched(chain, colls) ==
    IF chain.retriever.ok THEN colls[chain.retriever.coll].entries ELSE <<>>

\* ConversationChain.create_retrieval_qa_chain._invoke; docs is the result
\* of the MMR search, one of MMRResults(searched(chain, colls)).
_invoke(chain, colls, input, docs, fl) ==
    LET question == Strip(Or(input, <<>>))
    IN  IF question = <<>>
        THEN [raised |-> FALSE, answer |-> <<>>, context |-> <<>>,
              retrieved |-> FALSE, invoked |-> FALSE, prompted |-> <<>>]
        ELSE IF retrieval_raises(chain, colls, fl)
        THEN [raised |-> TRUE, answer |-> None, context |-> <<>>,
              retrieved |-> TRUE, invoked |-> FALSE, prompted |-> <<>>]
        ELSE IF fl.invoke
        THEN [raised |-> TRUE, answer |-> None, context |-> <<>>,
              retrieved |-> chain.retriever.ok, invoked |-> TRUE,
              prompted |-> docs]
        ELSE [raised |-> FALSE, answer |-> Answer, context |-> docs,
              retrieved |-> chain.retriever.ok, invoked |-> TRUE,
              prompted |-> docs]

\* ------------------------------------------------------- backend/server.py
UploadExts == {PDF, TXT, EXE}
UploadNames == [base : Bases, ctr : {0}, ext : UploadExts]

\* allowed_file
allowed_file(name) == Lower(name.ext) \in ALLOWED_EXTENSIONS

\* What the latest request did; Idle before the first request.
Idle == [op |-> "none", user |-> 0, doc |-> 0, arg |-> None,
         name |-> [base |-> "a", ctr |-> 0, ext |-> PDF], status |-> 0,
         provider |-> None, loaded |-> FALSE, opened |-> FALSE,
         chunked |-> FALSE, ready |-> FALSE, embedded |-> FALSE,
         modelBuilt |-> FALSE, model |-> NoModel,
         retrieverOk |-> FALSE, retrieved |-> FALSE, invoked |-> FALSE,
         prompted |-> <<>>, answer |-> None, context |-> <<>>,
         reqProvider |-> None, reqModel |-> None, keyResolved |-> FALSE,
         hadSettings |-> FALSE, model_name |-> None, err |-> "",
         tried |-> <<>>, history |-> <<>>]

\* The name the loop of upload_document settles on: the original name, or
\* the first base_counter.ext that does not exist.
FreeCounters(files, orig) ==
    {c \in 1..MaxCtr : files[[orig EXCEPT !.ctr = c]] = NoFile}
storage_name(files, orig) ==
    IF files[orig] = NoFile THEN orig
    ELSE [orig EXCEPT !.ctr =
            CHOOSE c \in FreeCounters(files, orig) :
                \A d \in FreeCounters(files, orig) : c <= d]

\* A lookup by id alone.
DocById_AnyOwner(id, u) == {d \in documents : d.id = id}

\* db.query(Document).filter(Document.id == id, Document.user_id == u)
DocById(id, u) == {d \in documents : d.id = id /\ d.user_id = u}

\* The collection entries stay within the bound.
WithinEntries(colls) == \A n \in Stems : Len(colls[n].entries) <= MaxEntries

\* get_or_create_llm_settings: a new row takes the column defaults.
DefaultSettings == [exists |-> TRUE, preferred_provider |-> OPENAI,
                    model_name |-> GPT4oMini,
                    keys |-> [p \in Providers |-> None]]
get_or_create_llm_settings(rows, u) ==
    IF rows[u].exists THEN rows[u] ELSE DefaultSettings

\* POST /api/documents/upload
upload_document(u, orig, content, fl) ==
    IF ~allowed_file(orig)
    THEN /\ last' = [Idle EXCEPT !.op = "upload_document", !.user = u,
                                 !.status = 400]
         /\ UNCHANGED <<fs, chroma, documents, nextDocId, chats, nextChatId,
                        settings, env, qa_chain, users, inflight>>
    ELSE /\ nextDocId <= MaxDocs
         /\ fs[orig] # NoFile => FreeCounters(fs, orig) # {}
         /\ \E name \in {storage_name(fs, orig)} :
            \E files \in {[fs EXCEPT ![name] = content]} :
            \E p \in {RAGPipeline_pipeline(files, chroma, name, env, fl)} :
            LET document == [id |-> nextDocId, user_id |-> u,
                             filename |-> name, original_name |-> orig,
                             indexed |-> ~p.raised]
            IN  /\ WithinEntries(p.colls)
                /\ fs' = files
                /\ chroma' = p.colls
                /\ documents' = documents \cup {document}
                /\ nextDocId' = nextDocId + 1
                /\ last' = [Idle EXCEPT !.op = "upload_document", !.user = u,
                                        !.doc = document.id, !.name = name,
                                        !.status = 201,
                                        !.loaded = p.loaded,
                                        !.opened = p.opened,
                                        !.chunked = p.chunked,
                                        !.ready = p.ready,
                                        !.embedded = p.embedded,
                                        !.retrieverOk = p.retriever.ok]
         /\ UNCHANGED <<chats, nextChatId, settings, env, qa_chain, users, inflight>>

\* delete_document_vector_index: delete_collection, every error swallowed.
delete_document_vector_index(colls, name, fails) ==
    IF fails \/ ~colls[splitext_stem(name)].exists THEN colls
    ELSE [colls EXCEPT ![splitext_stem(name)] = NoCollection]

\* A retriever held by the legacy chain loses its collection when the
\* collection is deleted.
after_delete(chain, before, after) ==
    IF chain.retriever.ok /\ before[chain.retriever.coll].exists
       /\ ~after[chain.retriever.coll].exists
    THEN [chain EXCEPT !.retriever.stale = TRUE]
    ELSE chain

\* A deletion that gives up when the index cleanup raises.
document_detail_DELETE_CleanupFirst(u, document_id, indexFails, removeFails) ==
    IF DocById(document_id, u) = {} \/ indexFails
    THEN /\ last' = [Idle EXCEPT !.op = "delete_document", !.user = u,
                                 !.doc = document_id,
                                 !.status = IF indexFails THEN 500 ELSE 404]
         /\ UNCHANGED <<fs, chroma, documents, nextDocId, chats, nextChatId,
                        settings, env, qa_chain, users, inflight>>
    ELSE \E document \in DocById(document_id, u) :
         \E colls \in {delete_document_vector_index(chroma, document.filename,
                                                     indexFails)} :
             /\ chroma' = colls
             /\ qa_chain' = after_delete(qa_chain, chroma, colls)
             /\ documents' = documents \ {document}
             /\ chats' = {c \in chats : c.document_id # document.id}
             /\ fs' = IF removeFails THEN fs
                      ELSE [fs EXCEPT ![document.filename] = NoFile]
             /\ last' = [Idle EXCEPT !.op = "delete_document", !.user = u,
                                     !.doc = document_id,
                                     !.name = document.filename,
                                     !.status = 200]
             /\ UNCHANGED <<nextDocId, nextChatId, settings, env, users, inflight>>

\* DELETE /api/documents/<id>
document_detail_DELETE(u, document_id, indexFails, removeFails) ==
    IF DocById(document_id, u) = {}
    THEN /\ last' = [Idle EXCEPT !.op = "delete_document", !.user = u,
                                 !.doc = document_id, !.status = 404]
         /\ UNCHANGED <<fs, chroma, documents, nextDocId, chats, nextChatId,
                        settings, env, qa_chain, users, inflight>>
    ELSE \E document \in DocById(document_id, u) :
         \E colls \in {delete_document_vector_index(chroma, document.filename,
                                                     indexFails)} :
             /\ chroma' = colls
             /\ qa_chain' = after_delete(qa_chain, chroma, colls)
             /\ documents' = documents \ {document}
             /\ chats' = {c \in chats : c.document_id # document.id}
             /\ fs' = IF removeFails THEN fs
                      ELSE [fs EXCEPT ![document.filename] = NoFile]
             /\ last' = [Idle EXCEPT !.op = "delete_document", !.user = u,
                                     !.doc = document_id,
                                     !.name = document.filename,
                                     !.status = 200]
             /\ UNCHANGED <<nextDocId, nextChatId, settings, env, users, inflight>>

\* The password of a DELETE /api/account request (verify_password
\* accepts the right one only).
Passwords == {<<>>, <<"wrong">>, <<"right">>}

\* DELETE /api/account: the collections of the user's documents are
\* deleted best-effort (failing: the collections whose deletion raises),
\* the user row goes with its documents, chats and settings, then the
\* files are removed best-effort.
account_root_DELETE(u, password, failing, removeFails) ==
    LET reply(code) == [Idle EXCEPT !.op = "delete_account", !.user = u,
                                    !.arg = password, !.status = code]
        mine == {d \in documents : d.user_id = u}
        names == {d.filename : d \in mine}
        colls == [n \in Stems |->
                    IF n \in {splitext_stem(f) : f \in names} \ failing
                    THEN NoCollection ELSE chroma[n]]
    IN  IF u \notin users
        THEN /\ last' = reply(404)
             /\ UNCHANGED <<fs, chroma, documents, nextDocId, chats,
                            nextChatId, settings, env, qa_chain, users,
                            inflight>>
        ELSE IF Falsy(password) \/ password # <<"right">>
        THEN /\ last' = reply(400)
             /\ UNCHANGED <<fs, chroma, documents, nextDocId, chats,
                            nextChatId, settings, env, qa_chain, users,
                            inflight>>
        ELSE /\ chroma' = colls
             /\ qa_chain' = after_delete(qa_chain, chroma, colls)
             /\ users' = users \ {u}
             /\ documents' = documents \ mine
             /\ chats' = {c \in chats : c.user_id # u
                                        /\ c.document_id \notin
                                              {d.id : d \in mine}}
             /\ settings' = [settings EXCEPT ![u] = NoSettings]
             /\ fs' = IF removeFails THEN fs
                      ELSE [n \in FileNames |->
                              IF n \in names THEN NoFile ELSE fs[n]]
             /\ last' = reply(200)
             /\ UNCHANGED <<nextDocId, nextChatId, env, inflight>>

\* The environment's key preferred to the stored one.
resolved_key_EnvFirst(row, keys, provider) ==
    Or(keys[provider], row.keys[provider])

\* The key the server resolves for a provider: the stored one, or the
\* environment's.
resolved_key(row, keys, provider) == Or(row.keys[provider], keys[provider])

\* The per-provider default of chat_with_document.
default_model(provider) ==
    IF provider = OPENAI THEN GPT4oMini
    ELSE IF provider = GEMINI THEN <<"gemini-1.5-pro-latest">>
    ELSE IF provider = CLAUDE THEN <<"claude-3-5-sonnet-20241022">>
    ELSE <<"llama3-70b-8192">>

\* The rows of chat_with_document's context list: the documents with a
\* page_content, numbered by their position.
serialize(context_docs) ==
    [i \in 1..Len(context_docs) |->
        [id |-> i - 1, text |-> context_docs[i]]]

\* A context column that keeps the first row only.
context_json_FirstRow(contexts) ==
    [null |-> contexts = <<>>, rows |-> SubSeq(contexts, 1, 1)]

\* json.dumps(contexts) if contexts else None: the column is NULL (null)
\* for an empty list.
context_json(contexts) ==
    [null |-> contexts = <<>>, rows |-> contexts]

\* The stored preference taken before the provider of the request.
resolve_provider_StoredFirst(requested_provider, row) ==
    Lower(Or(row.preferred_provider, Or(requested_provider, OPENAI)))

\* (requested_provider or settings.preferred_provider or 'openai').lower()
resolve_provider(requested_provider, row) ==
    Lower(Or(requested_provider, Or(row.preferred_provider, OPENAI)))

\* POST /api/chat/<id>
chat_with_document(u, document_id, q, prov, mod, fl) ==
    \E question \in {Strip(Or(q, <<>>))} :
    \E requested_provider \in {Or(Lower(Strip(Or(prov, <<>>))), None)} :
    \E requested_model \in {Or(Strip(Or(mod, <<>>)), None)} :
    \E row \in {get_or_create_llm_settings(settings, u)} :
    \E provider \in {resolve_provider(requested_provider, row)} :
    \E model_name \in {IF ~Falsy(requested_model) THEN requested_model
                        ELSE IF ~Falsy(row.model_name) THEN row.model_name
                        ELSE default_model(provider)} :
    LET early(code) == [Idle EXCEPT !.op = "chat", !.user = u,
                                    !.doc = document_id, !.status = code,
                                    !.arg = q, !.reqProvider = prov,
                                    !.reqModel = mod]
        reply(code) == [early(code) EXCEPT !.provider = provider,
                                           !.hadSettings = settings[u].exists]
        keyed(code) == [reply(code) EXCEPT !.keyResolved = TRUE,
                                           !.model_name = model_name]
    IN  IF question = <<>>
        THEN /\ last' = early(400)
             /\ UNCHANGED <<fs, chroma, documents, nextDocId, chats,
                            nextChatId, settings, env, qa_chain, users,
                            inflight>>
        ELSE IF DocById(document_id, u) = {}
        THEN /\ last' = early(404)
             /\ UNCHANGED <<fs, chroma, documents, nextDocId, chats,
                            nextChatId, settings, env, qa_chain, users,
                            inflight>>
        ELSE IF provider \notin Providers
        THEN /\ last' = reply(400)
             /\ settings' = [settings EXCEPT ![u] = row]
             /\ UNCHANGED <<fs, chroma, documents, nextDocId, chats,
                            nextChatId, env, qa_chain, users,
                            inflight>>
        ELSE IF Falsy(resolved_key(row, env.keys, provider))
        THEN /\ last' = keyed(400)
             /\ settings' = [settings EXCEPT ![u] = row]
             /\ UNCHANGED <<fs, chroma, documents, nextDocId, chats,
                            nextChatId, env, qa_chain, users,
                            inflight>>
        ELSE
        \E document \in DocById(document_id, u) :
        \E api_key \in {resolved_key(row, env.keys, provider)} :
        \E c \in {RAGPipeline_qa_chain(fs, chroma, document.filename, provider,
                                      model_name, api_key, env, fl)} :
        LET did(code) == [keyed(code) EXCEPT
                            !.name = document.filename,
                            !.loaded = c.loaded, !.opened = c.opened,
                            !.chunked = c.chunked, !.ready = c.ready,
                            !.embedded = c.embedded,
                            !.modelBuilt = c.modelBuilt,
                            !.model = c.chain.model,
                            !.retrieverOk = c.chain.retriever.ok]
        IN  /\ settings' = [settings EXCEPT ![u] = row]
            /\ WithinEntries(c.colls)
            /\ chroma' = c.colls
            /\ UNCHANGED <<fs, nextDocId, env, qa_chain, users, inflight>>
            /\ IF c.raised
               THEN /\ last' = did(500)
                    /\ UNCHANGED <<documents, chats, nextChatId, users, inflight>>
               ELSE
               \E docs \in MMRResults(searched(c.chain, c.colls)) :
               \E r \in {_invoke(c.chain, c.colls, question, docs, fl)} :
               LET ran == [did(500) EXCEPT !.retrieved = r.retrieved,
                                           !.invoked = r.invoked,
                                           !.prompted = r.prompted]
                   chat_entry == [id |-> nextChatId, user_id |-> u,
                                  document_id |-> document.id,
                                  question |-> question, answer |-> r.answer,
                                  context_json |->
                                      context_json(serialize(r.context))]
               IN  /\ documents' = (documents \ {document})
                         \cup {[document EXCEPT !.indexed = TRUE]}
                   /\ IF r.raised
                      THEN /\ last' = ran
                           /\ UNCHANGED <<chats, nextChatId, users, inflight>>
                      ELSE /\ nextChatId <= MaxChats
                           /\ chats' = chats \cup {chat_entry}
                           /\ nextChatId' = nextChatId + 1
                           /\ last' = [ran EXCEPT !.status = 200,
                                                  !.answer = r.answer,
                                                  !.context = r.context]

\* PUT /api/account/llm with at most one key field in the request.
update_llm_settings(u, prov, mod, field, value) ==
    \E provider \in {Or(Strip(Lower(Or(prov, <<>>))), None)} :
    \E model_name \in {Strip(Or(mod, <<>>))} :
    \E row \in {get_or_create_llm_settings(settings, u)} :
    \E keyed \in {IF field \in Providers
                   THEN [row EXCEPT
                           !.keys[field] = Or(Strip(Or(value, <<>>)), None)]
                   ELSE row} :
    \E chosen \in {IF provider = None THEN keyed
                    ELSE [keyed EXCEPT
                            !.preferred_provider = provider,
                            !.model_name = IF model_name # <<>> THEN model_name
                                           ELSE keyed.model_name]} :
    LET reply(code) == [Idle EXCEPT !.op = "update_llm_settings",
                                    !.user = u, !.status = code]
    IN  /\ UNCHANGED <<fs, chroma, documents, nextDocId, chats, nextChatId,
                       env, qa_chain, users, inflight>>
        /\ IF provider # None /\ provider \notin Providers
           THEN /\ last' = reply(400)
                /\ UNCHANGED settings
           ELSE IF provider # None
                   /\ Falsy(resolved_key(chosen, env.keys, provider))
           THEN /\ last' = reply(400)
                /\ settings' = [settings EXCEPT ![u] = row]
           ELSE /\ last' = reply(200)
                /\ settings' = [settings EXCEPT ![u] = chosen]

\* POST /upload_file (legacy, no authentication): the file is saved under
\* its own name and the chain of the default provider replaces qa_chain.
upload_file(orig, content, fl) ==
    IF ~allowed_file(orig)
    THEN /\ last' = [Idle EXCEPT !.op = "upload_file", !.status = 200]
         /\ UNCHANGED <<fs, chroma, documents, nextDocId, chats, nextChatId,
                        settings, env, qa_chain, users, inflight>>
    ELSE \E files \in {[fs EXCEPT ![orig] = content]} :
         \E c \in {RAGPipeline_qa_chain(files, chroma, orig, OPENAI, GPT4oMini,
                                        None, env, fl)} :
             /\ WithinEntries(c.colls)
             /\ fs' = files
             /\ chroma' = c.colls
             /\ qa_chain' = IF c.raised THEN qa_chain ELSE c.chain
             /\ last' = [Idle EXCEPT !.op = "upload_file", !.name = orig,
                            !.status = IF c.raised THEN 500 ELSE 200,
                            !.loaded = c.loaded, !.opened = c.opened,
                            !.chunked = c.chunked, !.ready = c.ready,
                            !.embedded = c.embedded,
                            !.modelBuilt = c.modelBuilt,
                            !.model = c.chain.model,
                            !.retrieverOk = c.chain.retriever.ok]
             /\ UNCHANGED <<documents, nextDocId, chats, nextChatId,
                            settings, env, users, inflight>>

\* POST /ask_ai (legacy): invokes the global chain; every exception,
\* also that of a chain never set, becomes an error body.
query_endpoint(prompt, fl) ==
    /\ UNCHANGED <<fs, chroma, documents, nextDocId, chats, nextChatId,
                   settings, env, qa_chain, users, inflight>>
    /\ IF ~qa_chain.set
       THEN last' = [Idle EXCEPT !.op = "ask_ai", !.arg = prompt,
                                 !.status = 200]
       ELSE \E docs \in MMRResults(searched(qa_chain, chroma)) :
            \E r \in {_invoke(qa_chain, chroma, prompt, docs, fl)} :
                last' = [Idle EXCEPT !.op = "ask_ai", !.arg = prompt,
                            !.status = 200, !.model = qa_chain.model,
                            !.retrieverOk = qa_chain.retriever.ok,
                            !.retrieved = r.retrieved, !.invoked = r.invoked,
                            !.prompted = r.prompted, !.answer = r.answer,
                            !.context = r.context]

\* LoadDocuments(name).load_document() on its own, for the names no
\* endpoint passes.
LoadDocuments_load_document(name) ==
    /\ \E ld \in {load_document(fs, name)} :
          last' = [Idle EXCEPT !.op = "load_document", !.name = name,
                               !.loaded = ld.ok, !.err = ld.err,
                               !.tried = ld.tried,
                               !.context = IF ld.ok
                                           THEN split_documents(ld.content)
                                           ELSE <<>>]
    /\ UNCHANGED <<fs, chroma, documents, nextDocId, chats, nextChatId,
                   settings, env, qa_chain, users, inflight>>

\* retriever.get_relevant_documents(question) on its own, once on the
\* collection drawn.
get_relevant_documents(question) ==
    /\ qa_chain.retriever.ok
    /\ last.op = "none"
    /\ \E docs \in MMRResults(searched(qa_chain, chroma)) :
          last' = [Idle EXCEPT !.op = "retrieve", !.arg = question,
                               !.retrieverOk = TRUE, !.retrieved = TRUE,
                               !.context = docs]
    /\ UNCHANGED <<fs, chroma, documents, nextDocId, chats, nextChatId,
                   settings, env, qa_chain, users, inflight>>

\* ChatModel(provider, model_name, api_key).initialize_chat_model() on its
\* own, for the arguments no endpoint passes.
construct_chat_model(provider_arg, model_name, api_key, ctorFails) ==
    /\ \E m \in {initialize_chat_model(provider_arg, model_name, api_key,
                                        env.libs, ctorFails)} :
          last' = [Idle EXCEPT !.op = "ChatModel", !.arg = provider_arg,
                               !.modelBuilt = m.ok, !.model = m]
    /\ UNCHANGED <<fs, chroma, documents, nextDocId, chats, nextChatId,
                   settings, env, qa_chain, users, inflight>>

\* A worker inside RAGPipeline.pipeline for a document: it loads the file
\* and enters get_retriever, up to the count of the collection.
pipeline_open(w, document_id) ==
    /\ inflight[w].pc = "idle"
    /\ \E document \in DocById(document_id, 1) :
       \E ld \in {load_document(fs, document.filename)} :
       \E o \in {get_retriever_open(chroma,
                                    splitext_stem(document.filename),
                                    ld.content)} :
          /\ ld.ok
          /\ chroma' = o.colls
          /\ inflight' = [inflight EXCEPT ![w] = o.call]
          /\ last' = [Idle EXCEPT !.op = "pipeline_open", !.user = w,
                                  !.doc = document_id,
                                  !.name = document.filename,
                                  !.loaded = TRUE, !.chunked = TRUE,
                                  !.opened = TRUE, !.ready = ~o.call.empty]
    /\ UNCHANGED <<fs, documents, nextDocId, chats, nextChatId, settings,
                   env, qa_chain, users>>

\* The worker leaves get_retriever: it has built the collection or reuses
\* it, by the count it read.
pipeline_build(w) ==
    /\ inflight[w].pc = "opened"
    /\ \E colls \in {get_retriever_build(inflight[w], chroma,
                                          create_embeddings(env).provider)} :
          /\ WithinEntries(colls)
          /\ chroma' = colls
    /\ inflight' = [inflight EXCEPT ![w].pc = "idle"]
    /\ last' = [Idle EXCEPT !.op = "pipeline_build", !.user = w,
                            !.loaded = TRUE, !.chunked = TRUE,
                            !.opened = TRUE, !.ready = ~inflight[w].empty,
                            !.embedded = inflight[w].empty,
                            !.retrieverOk = TRUE]
    /\ UNCHANGED <<fs, documents, nextDocId, chats, nextChatId, settings,
                   env, qa_chain, users>>

\* GET /api/documents/<id>
document_detail_GET(u, document_id) ==
    /\ IF DocById(document_id, u) = {}
       THEN last' = [Idle EXCEPT !.op = "get_document", !.user = u,
                                 !.doc = document_id, !.status = 404]
       ELSE \E document \in DocById(document_id, u) :
               last' = [Idle EXCEPT !.op = "get_document", !.user = u,
                                    !.doc = document_id,
                                    !.name = document.filename,
                                    !.status = 200]
    /\ UNCHANGED <<fs, chroma, documents, nextDocId, chats, nextChatId,
                   settings, env, qa_chain, users, inflight>>

\* The rows of a query ordered by created_at, which grows with the id.
RECURSIVE order_by_created_at(_)
order_by_created_at(rows) ==
    IF rows = {} THEN <<>>
    ELSE LET first == CHOOSE c \in rows : \A d \in rows : c.id <= d.id
         IN  <<first>> \o order_by_created_at(rows \ {first})

\* The history list of chat_history: the chat rows of the document and of
\* the user, with the contexts read back from the column.
history_of(rows, u, document_id) ==
    LET history_rows ==
            order_by_created_at({c \in rows : /\ c.document_id = document_id
                                              /\ c.user_id = u})
    IN  [i \in 1..Len(history_rows) |->
            [id |-> history_rows[i].id,
             question |-> history_rows[i].question,
             answer |-> history_rows[i].answer,
             contexts |-> history_rows[i].context_json]]

\* GET /api/chat/history/<id>
chat_history(u, document_id) ==
    /\ IF DocById(document_id, u) = {}
       THEN last' = [Idle EXCEPT !.op = "history", !.user = u,
                                 !.doc = document_id, !.status = 404]
       ELSE \E document \in DocById(document_id, u) :
               last' = [Idle EXCEPT !.op = "history", !.user = u,
                                    !.doc = document_id,
                                    !.name = document.filename,
                                    !.status = 200,
                                    !.history =
                                        history_of(chats, u, document_id)]
    /\ UNCHANGED <<fs, chroma, documents, nextDocId, chats, nextChatId,
                   settings, env, qa_chain, users, inflight>>

\* The texts of the chunks list of document_chunks for a storage name, in
\* the order of their ids (0, 1, ...): the file is loaded and split with
\* the splitter of get_retriever.
chunk_texts(files, name) ==
    Only({IF ld.ok THEN split_documents(ld.content) ELSE <<>> :
          ld \in {load_document(files, name)}})

\* GET /api/documents/<id>/chunks
document_chunks(u, document_id) ==
    /\ IF DocById(document_id, u) = {}
       THEN last' = [Idle EXCEPT !.op = "chunks", !.user = u,
                                 !.doc = document_id, !.status = 404]
       ELSE \E document \in DocById(document_id, u) :
            \E ld \in {load_document(fs, document.filename)} :
               last' = [Idle EXCEPT !.op = "chunks", !.user = u,
                                    !.doc = document_id,
                                    !.name = document.filename,
                                    !.loaded = ld.ok, !.err = ld.err,
                                    !.tried = ld.tried,
                                    !.chunked = ld.ok,
                                    !.status = IF ld.ok THEN 200 ELSE 500,
                                    !.context =
                                        chunk_texts(fs, document.filename)]
    /\ UNCHANGED <<fs, chroma, documents, nextDocId, chats, nextChatId,
                   settings, env, qa_chain, users, inflight>>

\* The server started again with another environment: the module reads
\* its keys again, the global chain starts unset, what is persisted stays.
restart(keys, override) ==
    /\ env' = [env EXCEPT !.keys = keys, !.embeddings_provider = override]
    /\ env' # env
    /\ qa_chain' = NoChain
    /\ last' = [Idle EXCEPT !.op = "restart"]
    /\ UNCHANGED <<fs, chroma, documents, nextDocId, chats, nextChatId,
                   settings, users, inflight>>

\* ------------------------------------------------------------ specification
\* The failure switches, without the combinations in which one failure
\* hides the others (a chat model that is not built, say, ends the request).
PipelineFlags == {f \in Flags : /\ ~f.ctor /\ ~f.retr /\ ~f.invoke
                                /\ f.emb => ~f.open /\ ~f.build}
BuildFlags == {f \in Flags : /\ ~f.retr /\ ~f.invoke
                             /\ f.ctor => ~f.emb /\ ~f.open /\ ~f.build
                             /\ f.emb => ~f.open /\ ~f.build}
InvokeFlags == {f \in Flags : /\ ~f.emb /\ ~f.open /\ ~f.build /\ ~f.ctor
                              /\ f.retr => ~f.invoke}
ChatFlags == {f \in Flags : /\ f.ctor => ~f.emb /\ ~f.open /\ ~f.build
                                         /\ ~f.retr /\ ~f.invoke
                            /\ f.emb => ~f.open /\ ~f.build /\ ~f.retr
                                        /\ ~f.invoke
                            /\ f.retr => ~f.invoke}

APdf == [base |-> "a", ctr |-> 0, ext |-> PDF]
ATxt == [base |-> "a", ctr |-> 0, ext |-> TXT]
AExe == [base |-> "a", ctr |-> 0, ext |-> EXE]

\* The uploads of the runs: <<name, content, failures>>.
Uploads ==
    {<<APdf, "X", fl>> : fl \in PipelineFlags}
    \cup {<<ATxt, "Y", fl>> : fl \in PipelineFlags}
    \cup {<<APdf, "BAD", NoFail>>, <<AExe, "Y", NoFail>>}

\* The chat requests of the runs: <<question, failures>>.
ChatRequests ==
    {<<q, NoFail>> : q \in {None, <<" ">>}}
    \cup {<<(<<" ", "q">>), fl>> : fl \in ChatFlags}

DocIds == 1..MaxDocs

\* Values of LEGAL_EAGLE_EMBEDDINGS_PROVIDER.
EmbeddingOverrides ==
    {None, OPENAI, <<"x">>,
     <<" ", "H", "u", "g", "g", "i", "n", "g", "f", "a", "c", "e">>}
AllKeys == [p \in Providers |-> EnvKey]
NoOpenAIKey == [AllKeys EXCEPT ![OPENAI] = None]

TypeOK ==
    /\ fs \in [FileNames -> Contents \cup {NoFile}]
    /\ DOMAIN chroma = Stems
    /\ \A n \in Stems : chroma[n].exists \in BOOLEAN
    /\ nextDocId \in 1..(MaxDocs + 1)
    /\ nextChatId \in 1..(MaxChats + 1)
    /\ \A d \in documents : d.id < nextDocId /\ d.filename \in FileNames
    /\ \A c \in chats : c.id < nextChatId
    /\ DOMAIN settings = Users
    /\ env.keys \in EnvKeys
    /\ env.libs \subseteq OptionalLibs
    /\ users \subseteq Users
    /\ \A w \in Workers : /\ inflight[w].pc \in {"idle", "opened"}
                          /\ inflight[w].coll \in Stems
                          /\ inflight[w].empty \in BOOLEAN
    /\ env.embeddings_provider \in EmbeddingOverrides

Start ==
    /\ fs = [n \in FileNames |-> NoFile]
    /\ chroma = [n \in Stems |-> NoCollection]
    /\ documents = {}
    /\ nextDocId = 1
    /\ chats = {}
    /\ nextChatId = 1
    /\ settings = [u \in Users |-> NoSettings]
    /\ qa_chain = NoChain
    /\ users = Users
    /\ inflight = [w \in Workers |-> NoCall]
    /\ last = Idle

\* Documents of one user, every provider's key in the environment.
Init ==
    /\ Start
    /\ env = [keys |-> AllKeys, libs |-> OptionalLibs,
              embeddings_provider |-> None]

Next ==
    \/ \E up \in Uploads : upload_document(1, up[1], up[2], up[3])
    \/ \E id \in DocIds, indexFails, removeFails \in BOOLEAN :
          document_detail_DELETE(1, id, indexFails, removeFails)
    \/ \E id \in DocIds, rq \in ChatRequests :
          chat_with_document(1, id, rq[1], None, None, rq[2])

Spec == Init /\ [][Next]_vars

\* The legacy endpoints, beside one authenticated document; the environment
\* has every provider's key or none.
NoKeys == [p \in Providers |-> None]
LegacyUploads ==
    {<<APdf, c, fl>> : c \in {"X", "Y"}, fl \in BuildFlags}
    \cup {<<APdf, "BAD", NoFail>>, <<AExe, "Y", NoFail>>,
          <<ATxt, "X", NoFail>>}

InitLegacy ==
    /\ Start
    /\ env \in [keys : {AllKeys, NoKeys}, libs : {OptionalLibs},
               embeddings_provider : {None}]

NextLegacy ==
    \/ \E up \in LegacyUploads : upload_file(up[1], up[2], up[3])
    \/ \E prompt \in Questions, fl \in InvokeFlags :
          query_endpoint(prompt, fl)
    \/ upload_document(1, ATxt, "Y", NoFail)
    \/ \E id \in DocIds, indexFails \in BOOLEAN :
          document_detail_DELETE(1, id, indexFails, FALSE)

SpecLegacy == InitLegacy /\ [][NextLegacy]_vars

\* Provider, model and key resolution of the chat endpoint: any keys in
\* the environment, the settings of one user, one document.
ProviderInputs == {None, CLAUDE, <<" ", "C", "l", "a", "u", "d", "e">>,
                   <<"x">>}
ModelInputs == {None, <<" ", "m">>}
KeyFields == {None, OPENAI, CLAUDE}
KeyValues == {<<>>, <<" ", "u", "k">>}
CtorFails == [NoFail EXCEPT !.ctor = TRUE]

InitKeys ==
    /\ Start
    /\ env \in [keys : EnvKeys, libs : {OptionalLibs},
               embeddings_provider : {None}]

NextKeys ==
    \/ upload_document(1, ATxt, "Y", NoFail)
    \/ \E prov \in ProviderInputs, mod \in ModelInputs, field \in KeyFields,
          value \in KeyValues :
          update_llm_settings(1, prov, mod, field, value)
    \/ \E id \in DocIds, prov \in ProviderInputs, mod \in ModelInputs,
          fl \in {NoFail, CtorFails} :
          chat_with_document(1, id, <<"q">>, prov, mod, fl)

SpecKeys == InitKeys /\ [][NextKeys]_vars

\* The chat model factory on every argument, with any of the optional
\* client libraries installed.
ProviderArgs == {None, <<>>, OPENAI, GEMINI, CLAUDE, GROQ,
                 <<"C", "l", "a", "u", "d", "e">>, <<"G", "R", "O", "Q">>,
                 <<"x">>, <<"o", "l", "l", "a", "m", "a">>, <<" ">>}

InitChatModel ==
    /\ Start
    /\ env \in [keys : {AllKeys}, libs : SUBSET OptionalLibs,
               embeddings_provider : {None}]

NextChatModel ==
    \E provider_arg \in ProviderArgs, model_name \in {GPT4oMini, <<"m">>},
       api_key \in {None, UserKey}, ctorFails \in BOOLEAN :
       construct_chat_model(provider_arg, model_name, api_key, ctorFails)

SpecChatModel == InitChatModel /\ [][NextChatModel]_vars

\* Chats and deletions: the documents, chats and account of one user, a
\* chat failing at each of its steps, the index cleanup failing or not.
FailingChats == {NoFail, CtorFails, [NoFail EXCEPT !.emb = TRUE],
                 [NoFail EXCEPT !.retr = TRUE],
                 [NoFail EXCEPT !.invoke = TRUE]}

InitAccount ==
    /\ Start
    /\ env \in [keys : {AllKeys, NoOpenAIKey}, libs : {OptionalLibs},
               embeddings_provider : {None}]

NextAccount ==
    \/ \E up \in {<<APdf, "X">>, <<ATxt, "Y">>} :
          upload_document(1, up[1], up[2], NoFail)
    \/ \E id \in DocIds, q \in {<<" ">>, <<"q">>},
          prov \in {None, CLAUDE, <<"x">>}, fl \in FailingChats :
          chat_with_document(1, id, q, prov, None, fl)
    \/ \E id \in DocIds, indexFails, removeFails \in BOOLEAN :
          document_detail_DELETE(1, id, indexFails, removeFails)
    \/ \E password \in Passwords, failing \in {{}, Stems},
          removeFails \in BOOLEAN :
          account_root_DELETE(1, password, failing, removeFails)

SpecAccount == InitAccount /\ [][NextAccount]_vars

\* Two users, each with documents of their own, and every operation on a
\* document by either of them.
ReadUploads == {<<APdf, "X">>, <<ATxt, "Y">>}

InitReads ==
    /\ Start
    /\ env = [keys |-> AllKeys, libs |-> OptionalLibs,
              embeddings_provider |-> None]

NextReads ==
    \/ \E u \in Users, up \in ReadUploads :
          upload_document(u, up[1], up[2], NoFail)
    \/ \E u \in Users, id \in DocIds :
          document_detail_DELETE(u, id, FALSE, FALSE)
    \/ \E u \in Users, id \in DocIds, q \in {<<"q">>, <<" ">>} :
          chat_with_document(u, id, q, None, None, NoFail)
    \/ \E u \in Users, id \in DocIds : document_detail_GET(u, id)
    \/ \E u \in Users, id \in DocIds : chat_history(u, id)
    \/ \E u \in Users, id \in DocIds : document_chunks(u, id)

SpecReads == InitReads /\ [][NextReads]_vars

\* Two workers inside get_retriever at the same time, beside uploads and
\* deletions of the documents they work on.
InitRace ==
    /\ Start
    /\ env = [keys |-> AllKeys, libs |-> OptionalLibs,
              embeddings_provider |-> None]

NextRace ==
    \/ \E up \in {<<APdf, "X">>, <<ATxt, "Y">>},
          fl \in {NoFail, [NoFail EXCEPT !.build = TRUE]} :
          upload_document(1, up[1], up[2], fl)
    \/ \E id \in DocIds : document_detail_DELETE(1, id, FALSE, FALSE)
    \/ \E w \in Workers, id \in DocIds : pipeline_open(w, id)
    \/ \E w \in Workers : pipeline_build(w)

SpecRace == InitRace /\ [][NextRace]_vars

\* The loader on every name, over every content of the upload directory.
LoaderNames == {n \in FileNames : n.ctr = 0}

InitLoader ==
    /\ fs \in {f \in [FileNames -> {NoFile, "X", "HARD", "BAD"}] :
                 \A n \in FileNames \ LoaderNames : f[n] = NoFile}
    /\ chroma = [n \in Stems |-> NoCollection]
    /\ documents = {}
    /\ nextDocId = 1
    /\ chats = {}
    /\ nextChatId = 1
    /\ settings = [u \in Users |-> NoSettings]
    /\ qa_chain = NoChain
    /\ users = Users
    /\ inflight = [w \in Workers |-> NoCall]
    /\ last = Idle
    /\ env = [keys |-> AllKeys, libs |-> OptionalLibs,
              embeddings_provider |-> None]

NextLoader == \E name \in LoaderNames : LoadDocuments_load_document(name)

SpecLoader == InitLoader /\ [][NextLoader]_vars

\* The embedding provider across restarts: one user's documents, the
\* OpenAI key present or not, the provider forced or not.
InitEmbed ==
    /\ Start
    /\ env = [keys |-> AllKeys, libs |-> OptionalLibs,
              embeddings_provider |-> None]

NextEmbed ==
    \/ upload_document(1, ATxt, "Y", NoFail)
    \/ \E id \in DocIds : document_detail_DELETE(1, id, FALSE, FALSE)
    \/ \E id \in DocIds :
          chat_with_document(1, id, <<"q">>, CLAUDE, None, NoFail)
    \/ \E keys \in {AllKeys, NoOpenAIKey}, override \in EmbeddingOverrides :
          restart(keys, override)

SpecEmbed == InitEmbed /\ [][NextEmbed]_vars

\* The search on collections of every size up to MaxColl, their entries
\* listed nearest to the question first.
A0 == [base |-> "a", ctr |-> 0]

InitRetrieval ==
    /\ fs = [n \in FileNames |-> IF n = APdf THEN "X" ELSE NoFile]
    /\ \E n \in 1..MaxColl :
          chroma = [c \in Stems |->
                      IF c = A0
                      THEN [exists |-> TRUE,
                            entries |-> [i \in 1..n |-> Chunk("X", i)],
                            embedder |-> OPENAI]
                      ELSE NoCollection]
    /\ documents = {}
    /\ nextDocId = 1
    /\ chats = {}
    /\ nextChatId = 1
    /\ settings = [u \in Users |-> NoSettings]
    /\ qa_chain = [set |-> TRUE,
                   model |-> client(OPENAI, GPT4oMini, None, FALSE),
                   retriever |-> [ok |-> TRUE, coll |-> A0, stale |-> FALSE,
                                  embedder |-> OPENAI]]
    /\ users = Users
    /\ inflight = [w \in Workers |-> NoCall]
    /\ last = Idle
    /\ env = [keys |-> AllKeys, libs |-> OptionalLibs,
              embeddings_provider |-> None]

NextRetrieval == get_relevant_documents(<<"q">>)

SpecRetrieval == InitRetrieval /\ [][NextRetrieval]_vars

\* ------------------------------------------------------------------ claims
\* The Index operation (upload) and the Answer operation (chat).
PipelineOps == {"upload_document", "chat"}

\* C1: every context chunk an Answer against document D returns is a chunk
\* of D's current content, and the collection of every existing document
\* holds chunks of that document only (no collection is shared by two
\* documents or inherited from a deleted one).
C1_DocumentScoped ==
    /\ (last.op = "chat" /\ last.status = 200) =>
          \A i \in 1..Len(last.context) :
              last.context[i].content = fs[last.name]
    /\ \A d \in documents :
          \A i \in 1..Len(chroma[splitext_stem(d.filename)].entries) :
              chroma[splitext_stem(d.filename)].entries[i].content
                  = fs[d.filename]

\* C2: an Index or Answer operation that finds its collection unopenable or
\* empty and goes on to retrieve has first written all the chunks of the
\* document to it, and no retrieval of a document with at least one chunk
\* runs against an empty collection.
C2_RebuildBeforeRetrieval ==
    [][(last'.op \in PipelineOps /\ last'.opened) =>
          LET n == splitext_stem(last'.name)
              all == split_documents(fs'[last'.name])
          IN  /\ (~last'.ready /\ last'.retrieverOk) =>
                    chroma'[n].entries = chroma[n].entries \o all
              /\ (chroma[n].entries = <<>> /\ last'.retrieverOk) =>
                    chroma'[n].entries = all
              /\ (last'.retrieved /\ all # <<>>) =>
                    chroma'[n].entries # <<>>]_vars

\* An Answer found the collection empty, rebuilt it and retrieved from it.
C2_Witness ==
    /\ last.op = "chat" /\ last.status = 200
    /\ ~last.ready /\ last.embedded /\ last.retrieved
    /\ last.context # <<>>

\* C3: an Answer whose retriever could not be created, or whose retrieval
\* failed, is answered with a failure: the chat model is not invoked and no
\* answer is returned.
C3_AnswerFailureReported ==
    /\ (last.op = "chat" /\ last.opened /\ ~last.retrieverOk) =>
          (~last.invoked /\ last.status # 200 /\ last.answer = None)
    /\ (last.op = "chat" /\ last.retrieved /\ ~last.invoked) =>
          (last.status # 200 /\ last.answer = None)

\* C4: a document becomes indexed only in an Index or Answer operation
\* whose open-or-build of the collection succeeded.
C4_IndexedOnlyAfterBuild ==
    [][\A d \in documents' :
          (d.indexed /\ ~\E e \in documents : e.id = d.id /\ e.indexed) =>
              (last'.op \in PipelineOps /\ last'.retrieverOk)]_vars

\* C5: an accepted upload whose loading, parsing or indexing failed answers
\* 201 and leaves the record as it was created (not indexed).
C5_UploadSurvivesIndexFailure ==
    (last.op = "upload_document" /\ last.status # 400 /\ ~last.retrieverOk) =>
        /\ last.status = 201
        /\ [id |-> last.doc, user_id |-> last.user, filename |-> last.name,
            original_name |-> [last.name EXCEPT !.ctr = 0],
            indexed |-> FALSE] \in documents

\* C6 as claimed: an Index or Answer operation that finds its collection
\* Ready neither chunks the document nor embeds its chunks.
C6_ReadySkipsChunking ==
    (last.op \in PipelineOps /\ last.ready) =>
        (~last.chunked /\ ~last.embedded)

\* C6 as amended: an Index or Answer operation that finds its collection
\* Ready embeds no chunk of the document and leaves the collection as it
\* is; the chunking step has run all the same.
C6_ReadySkipsEmbedding ==
    [][(last'.op \in PipelineOps /\ last'.ready) =>
          /\ chroma[splitext_stem(last'.name)].entries # <<>>
          /\ ~last'.embedded
          /\ chroma'[splitext_stem(last'.name)].entries
                = chroma[splitext_stem(last'.name)].entries
          /\ last'.chunked]_vars

\* An Answer on a Ready collection.
C6_Witness ==
    /\ last.op = "chat" /\ last.status = 200
    /\ last.ready /\ last.retrieved

\* A question that is missing, empty or made of whitespace only.
Blank(q) == q = None \/ \A i \in 1..Len(q) : IsSpace(q[i])

\* C7: the chain invoked with a missing, empty or whitespace-only question
\* returns an empty answer and an empty context, and calls neither the
\* retriever nor the chat model.
C7_BlankQuestionShortCircuits ==
    (last.op = "ask_ai" /\ qa_chain.set /\ Blank(last.arg)) =>
        /\ last.answer = <<>>
        /\ last.context = <<>>
        /\ ~last.retrieved
        /\ ~last.invoked

\* The chain, set over a retriever, invoked with whitespace only.
C7_Witness ==
    /\ last.op = "ask_ai" /\ qa_chain.set /\ qa_chain.retriever.ok
    /\ last.arg = <<"\t", "\n">>
    /\ last.answer = <<>>

\* C8: the chat endpoint uses the stored key of the resolved provider when
\* there is one and the environment's key otherwise; with neither it fails
\* before a collection is opened or built, a chat model is constructed or
\* invoked, or a chat record is persisted.
C8_KeyResolution ==
    [][(last'.op = "chat" /\ last'.provider \in Providers) =>
          LET stored == settings'[last'.user].keys[last'.provider]
              fromEnv == env.keys[last'.provider]
          IN  /\ last'.model.ok =>
                    last'.model.api_key =
                        IF stored # None THEN stored ELSE fromEnv
              /\ (stored = None /\ fromEnv = None) =>
                    /\ last'.status = 400
                    /\ ~last'.loaded /\ ~last'.opened /\ ~last'.embedded
                    /\ ~last'.modelBuilt /\ ~last'.invoked
                    /\ chroma' = chroma
                    /\ chats' = chats]_vars

\* A chat answered with the stored key although the environment has one.
C8_Witness ==
    /\ last.op = "chat" /\ last.status = 200
    /\ last.model.api_key = UserKey
    /\ env.keys[last.provider] = EnvKey

Recognized(arg) ==
    \E p \in Providers :
        /\ Len(arg) = Len(p)
        /\ \A i \in 1..Len(p) :
              \/ arg[i] = p[i]
              \/ \E k \in 1..26 : UpperCase[k] = arg[i] /\ LowerCase[k] = p[i]

\* C10 as claimed: every provider identifier that is not one of the four
\* backends, a missing or empty one included, is refused by the factory.
C10_UnrecognizedRefused ==
    (last.op = "ChatModel" /\ ~Recognized(last.arg)) => ~last.model.ok

\* C10 as amended: a missing or empty identifier selects the OpenAI
\* backend; every other identifier that is not one of the four backends
\* is refused with the ValueError and no model is returned.
C10_UnrecognizedRefusedButMissing ==
    /\ (last.op = "ChatModel" /\ ~Recognized(last.arg)
            /\ ~Falsy(last.arg)) =>
          (~last.model.ok /\ last.model.err = "ValueError")
    /\ (last.op = "ChatModel" /\ Falsy(last.arg)) =>
          (last.model.provider = OPENAI /\ last.model.err # "ValueError")

\* The factory refusing an identifier it does not know.
C10_Witness ==
    /\ last.op = "ChatModel"
    /\ last.arg = <<"o", "l", "l", "a", "m", "a">>
    /\ ~last.model.ok

\* The provider a request or a settings row gives, as the endpoint reads
\* it: trimmed, in lower case, nothing when it is missing or blank.
given(prov) == Or(Lower(Strip(Or(prov, <<>>))), None)

\* C11: the chat endpoint uses the provider of the request when it gives
\* one, otherwise the user's stored preferred provider, otherwise 'openai';
\* a resolved provider outside the four recognized ones is answered 400
\* before a key is resolved (and so before anything is opened or built).
C11_ProviderPrecedence ==
    [][(last'.op = "chat" /\ last'.status \notin {404}
            /\ Strip(Or(last'.arg, <<>>)) # <<>>) =>
          LET stored == get_or_create_llm_settings(settings, last'.user)
                            .preferred_provider
          IN  /\ last'.provider =
                    IF given(last'.reqProvider) # None
                    THEN given(last'.reqProvider)
                    ELSE IF ~Falsy(stored) THEN Lower(stored)
                    ELSE OPENAI
              /\ last'.provider \notin Providers =>
                    /\ last'.status = 400
                    /\ ~last'.keyResolved /\ ~last'.modelBuilt
                    /\ ~last'.opened
                    /\ chroma' = chroma /\ chats' = chats]_vars

\* A request that overrides a stored preference, and one refused for its
\* provider.
C11_Witness ==
    /\ last.op = "chat" /\ last.status = 200
    /\ last.reqProvider = <<" ", "C", "l", "a", "u", "d", "e">>
    /\ last.provider = CLAUDE
    /\ settings[last.user].preferred_provider = OPENAI

\* C12: a chat request without a model name, by a user who has no stored
\* settings yet (and so never stored a model name), uses the built-in
\* default model of the resolved provider.
C12_DefaultModelOfProvider ==
    (last.op = "chat" /\ last.keyResolved /\ ~last.hadSettings
        /\ Falsy(Strip(Or(last.reqModel, <<>>)))) =>
        last.model_name = default_model(last.provider)

C14_OneEmbeddingPerCollection ==
    [][(last'.op \in PipelineOps /\ last'.opened) =>
          LET n == splitext_stem(last'.name)
              selected == create_embeddings(env).provider
              other == chroma[n].entries # <<>>
                       /\ chroma[n].embedder # selected
          IN  /\ other => ~last'.ready
              /\ (other /\ last'.retrieverOk) =>
                    (chroma'[n].embedder = selected
                     /\ chroma'[n].entries = split_documents(fs'[last'.name]))
              /\ (last'.status = 200 /\ last'.op = "chat") =>
                    chroma'[n].embedder = selected]_vars

\* C15: loading a name whose file does not exist fails with the not-found
\* error whatever the extension is; loading an existing file whose
\* extension (in any case of letters) is not pdf, doc, docx or txt fails
\* with the unsupported-type error; neither produces a segment.
C15_LoadFailures ==
    (last.op = "load_document") =>
        /\ fs[last.name] = NoFile =>
              (last.err = "FileNotFoundError" /\ ~last.loaded
               /\ last.context = <<>>)
        /\ (fs[last.name] # NoFile
                /\ Lower(last.name.ext) \notin {PDF, DOC, DOCX, TXT}) =>
              (last.err = "ValueError" /\ ~last.loaded
               /\ last.context = <<>>)

\* A missing file with an extension the loader does not support.
C15_Witness ==
    /\ last.op = "load_document"
    /\ last.name = AExe
    /\ fs[AExe] = NoFile
    /\ last.err = "FileNotFoundError"

\* C16: a chat request that returns an answer adds exactly one chat record,
\* holding the question as asked (trimmed), the answer returned and the
\* rows of the context returned (no rows: a NULL column); a chat request
\* that fails adds none; and no request other than the deletion of the
\* document or of the account changes or removes an existing record.
C16_ChatRecords ==
    [][/\ (last'.op = "chat" /\ last'.status = 200) =>
            \E c \in chats' \ chats :
                /\ chats' = chats \cup {c}
                /\ \A old \in chats : old.id # c.id
                /\ c.user_id = last'.user /\ c.document_id = last'.doc
                /\ c.question = Strip(last'.arg)
                /\ c.answer = last'.answer /\ c.answer = Answer
                /\ c.context_json.null = (last'.context = <<>>)
                /\ Len(c.context_json.rows) = Len(last'.context)
                /\ \A i \in 1..Len(last'.context) :
                      c.context_json.rows[i] =
                          [id |-> i - 1, text |-> last'.context[i]]
       /\ (last'.op = "chat" /\ last'.status # 200) => chats' = chats
       /\ last'.op \notin {"chat", "delete_document", "delete_account"} =>
            chats' = chats
       /\ last'.op \in {"delete_document", "delete_account"} =>
            chats' \subseteq chats]_vars

\* An answered chat whose record holds the context, beside a failed one.
C16_Witness ==
    /\ last.op = "chat" /\ last.status = 200 /\ last.context # <<>>
    /\ \E c \in chats : c.document_id = last.doc /\ ~c.context_json.null

\* C17: the deletion of an existing document, and the deletion of the
\* account with the right password, delete the records and answer 200
\* whether the deletion of the collections raises or not.
C17_DeleteDespiteCleanup ==
    [][/\ (last'.op = "delete_document"
              /\ \E d \in documents :
                    d.id = last'.doc /\ d.user_id = last'.user) =>
            /\ last'.status = 200
            /\ \A d \in documents' : d.id # last'.doc
            /\ \A c \in chats' : c.document_id # last'.doc
       /\ (last'.op = "delete_account" /\ last'.user \in users
              /\ last'.arg = <<"right">>) =>
            /\ last'.status = 200
            /\ last'.user \notin users'
            /\ \A d \in documents' : d.user_id # last'.user
            /\ \A c \in chats' : c.user_id # last'.user
            /\ ~settings'[last'.user].exists]_vars

\* A document deleted although its collection could not be.
C17_Witness ==
    /\ last.op = "delete_document" /\ last.status = 200
    /\ documents = {}
    /\ chroma[splitext_stem(last.name)].entries # <<>>

\* C18: no upload, authenticated or legacy, writes to the file of an
\* existing document, and the storage filenames of the existing documents
\* are pairwise distinct.
C18_NoOverwrite ==
    [][last'.op \in {"upload_document", "upload_file"} =>
          /\ \A d \in documents : fs'[d.filename] = fs[d.filename]
          /\ \A d1, d2 \in documents' :
                d1.filename = d2.filename => d1 = d2]_vars


\* C19: the count a worker read and its build are not one step.  A worker
\* that read a count of 0 adds the whole chunk set of its document to the
\* collection as it is when it writes, whatever was written since the
\* count was read; and a collection that holds entries grows in no other
\* way than by such a worker.
C19_CheckThenBuildNotAtomic ==
    [][/\ \A w \in Workers :
            (inflight[w].pc = "opened" /\ inflight'[w].pc = "idle") =>
               chroma'[inflight[w].coll].entries =
                  IF inflight[w].empty
                  THEN chroma[inflight[w].coll].entries
                          \o split_documents(inflight[w].content)
                  ELSE chroma[inflight[w].coll].entries
       /\ \A n \in Stems :
            (/\ chroma[n].entries # <<>>
             /\ Len(chroma'[n].entries) > Len(chroma[n].entries)) =>
               \E w \in Workers : /\ inflight[w].pc = "opened"
                                  /\ inflight[w].empty
                                  /\ inflight[w].coll = n
                                  /\ inflight'[w].pc = "idle"]_vars

\* Two overlapping calls have both read a count of 0 and both written: the
\* collection of the one-chunk document holds its chunk twice.
C19_Witness ==
    /\ last.op = "pipeline_build"
    /\ last.embedded
    /\ ~last.ready
    /\ nextDocId = 2
    /\ \A w \in Workers : /\ inflight[w].pc = "idle"
                          /\ inflight[w].coll = A0
                          /\ inflight[w].empty
    /\ chroma[A0].entries = split_documents("Y") \o split_documents("Y")
\* C20: with one operation at a time, an Index or Answer operation on a
\* document whose collection holds the chunks of that document, each one
\* once, leaves the entries of the collection as they are.
C20_ReadyWrittenOnce ==
    [][\A n \in Stems :
          (/\ last'.op \in PipelineOps
           /\ last'.loaded
           /\ splitext_stem(last'.name) = n
           /\ fs[last'.name] # NoFile
           /\ chroma[n].entries = split_documents(fs[last'.name])) =>
             chroma'[n].entries = chroma[n].entries]_vars

\* C21: loading an existing PDF runs PyPDFLoader first; PyMuPDFLoader runs
\* exactly when PyPDFLoader raised, and after it; when both raise the load
\* fails with an error and gives no segment.
C21_SecondaryOnlyAfterPrimaryFailed ==
    (/\ last.op = "load_document"
     /\ fs[last.name] # NoFile
     /\ Lower(last.name.ext) = PDF) =>
        /\ last.tried # <<>> /\ last.tried[1] = PyPDFLoader
        /\ fs[last.name] \in {"X", "Y"} =>
              (last.tried = <<PyPDFLoader>> /\ last.loaded)
        /\ fs[last.name] \in {"HARD", "BAD"} =>
              last.tried = <<PyPDFLoader, PyMuPDFLoader>>
        /\ fs[last.name] = "HARD" =>
              (last.loaded /\ last.context = <<Chunk("HARD", 1)>>)
        /\ fs[last.name] = "BAD" =>
              (~last.loaded /\ last.err # "" /\ last.context = <<>>)

\* A PDF that only the second loader reads, loaded by it.
C21_Witness ==
    /\ last.op = "load_document"
    /\ Lower(last.name.ext) = PDF
    /\ fs[last.name] = "HARD"
    /\ last.tried = <<PyPDFLoader, PyMuPDFLoader>>
    /\ last.loaded

\* C22: a collection an Index or Answer operation has built is embedded
\* with the backend of the policy: the override of the environment when
\* one is configured (a value that is not blank), else OpenAI when
\* OPENAI_API_KEY is set, else HuggingFace.
C22_EmbeddingPolicy ==
    (last.op \in PipelineOps /\ last.embedded /\ last.retrieverOk) =>
        LET configured == Strip(Or(env.embeddings_provider, <<>>))
        IN  chroma[splitext_stem(last.name)].embedder =
               IF configured # <<>> THEN Lower(configured)
               ELSE IF env.keys[OPENAI] # None THEN OPENAI
               ELSE HUGGINGFACE

\* C23: the chunk listing of a document is the chunk sequence its
\* collection holds, every context chunk an Answer returns is a text of the
\* chunk listing of the document asked about, and a chunk listing repeated
\* gives the same list.
C23_ListingMatchesCollection ==
    [][/\ \A d \in documents' :
            chroma'[splitext_stem(d.filename)].entries # <<>> =>
               chroma'[splitext_stem(d.filename)].entries
                  = chunk_texts(fs', d.filename)
       /\ (last'.op = "chat" /\ last'.status = 200) =>
            \A i \in 1..Len(last'.context) :
               \E j \in 1..Len(chunk_texts(fs', last'.name)) :
                  chunk_texts(fs', last'.name)[j] = last'.context[i]
       /\ (/\ last.op = "chunks" /\ last'.op = "chunks"
           /\ last'.user = last.user /\ last'.doc = last.doc) =>
            last'.context = last.context]_vars

\* C24: the document a question is answered against is the one its own
\* request names: a chat retrieves from the collection of the document of
\* its request, and a legacy question, which names no document, is not
\* answered through a chain that an earlier upload has left.
C24_AnswerStateless ==
    [][/\ (last'.op = "chat" /\ last'.retrieved) =>
            \A i \in 1..Len(last'.context) :
               \E j \in 1..Len(chroma'[splitext_stem(last'.name)].entries) :
                  chroma'[splitext_stem(last'.name)].entries[j]
                     = last'.context[i]
       /\ last'.op = "ask_ai" =>
            ~(qa_chain.set /\ (last'.retrieved \/ last'.invoked))]_vars

\* The operations on one document, and a request of a user on a document
\* that exists and is another user's.
DocumentOps == {"get_document", "delete_document", "chat", "history",
                "chunks"}
OnForeignDocument ==
    /\ last'.op \in DocumentOps
    /\ \E d \in documents : d.id = last'.doc /\ d.user_id # last'.user

\* What such a request leaves alone: no row, file, collection or chain
\* changes, and nothing of the document is loaded or returned.
NothingTouched ==
    /\ UNCHANGED <<fs, chroma, documents, nextDocId, chats, nextChatId,
                   settings, qa_chain, users>>
    /\ ~last'.loaded /\ ~last'.opened /\ ~last'.retrieved
    /\ last'.context = <<>> /\ last'.history = <<>>
    /\ last'.answer = None

\* C25 as stated: every operation of a user on a document of another user
\* answers that the document is not found, and touches nothing.
C25_ForeignDocumentNotFound ==
    [][OnForeignDocument => (last'.status = 404 /\ NothingTouched)]_vars

\* C25, amended: every operation of a user on a document of another user
\* touches nothing and answers that the document is not found, but for a
\* chat whose question is blank, which is refused with 400 before the
\* document is looked up.
C25_ForeignDocumentUntouched ==
    [][OnForeignDocument =>
          /\ NothingTouched
          /\ last'.status =
                IF last'.op = "chat" /\ Strip(Or(last'.arg, <<>>)) = <<>>
                THEN 400 ELSE 404]_vars

\* The history of a document that has chat rows, asked for by a user who
\* does not own it.
C25_Witness ==
    /\ last.op = "history"
    /\ last.status = 404
    /\ \E d \in documents :
          /\ d.id = last.doc
          /\ d.user_id # last.user
          /\ \E c \in chats : c.document_id = d.id

====
